---- MODULE Spec2Model ----
(***************************************************************************)
(* Model of scripts/loadtest/inference-traffic.py: an asyncio load         *)
(* generator.  One event-loop thread runs the coroutine run_load_test and  *)
(* the worker tasks; the blocking HTTP call do_request runs on executor    *)
(* threads.  A coroutine keeps the event loop from the point it is resumed *)
(* to its next await, so the steps of different tasks interleave only at   *)
(* `await send_request(...)` and `await asyncio.gather(...)`.  The wall    *)
(* clock (time.time()) advances independently of every step.               *)
(***************************************************************************)
EXTENDS Integers, Sequences, FiniteSets, TLC

(* ------------------------------ bounds --------------------------------- *)
\* largest --concurrency explored (the smallest is -1: range() is empty)
MaxConc == 2
\* largest --duration explored, in clock units
MaxDuration == 2
\* the clock stops advancing this many units after the deadline
MaxOver == 1
\* the clock reading at which Stats is created is at most this
MaxStart == 1
\* cap on main-phase requests when a single worker runs
MaxSerialReq == 10
\* cap on main-phase requests when several workers run
MaxParReq == 3
\* number of record calls a direct caller of Stats makes
MaxCalls == 4
\* largest latency a direct caller of Stats records
MaxLat == 2
\* largest clock reading a direct caller of Stats sees
MaxClock == 3
\* a run taken up mid-way starts this many results before a progress line
MaxLead == 2
\* ... and may send this many requests past that progress line
MaxTail == 2
\* progress lines a run taken up mid-way may be about to reach (1st, 2nd)
MaxRounds == 2

(* ------------------------- program constants --------------------------- *)
\* float("inf"), the initial min_latency
Inf == -1
\* the request slot of the warm-up call (workers use range(concurrency))
WarmSlot == -1
\* value of exit_code while run_load_test has not returned
NotReturned == -1
\* progress output every 50 requests
ProgressEvery == 50
\* per-call timeouts handed to urlopen
WorkerTimeout == 30
WarmupTimeout == 60

Workers == 0 .. (MaxConc - 1)
Slots == {WarmSlot} \cup Workers

\* --elb-host values: a well-formed host and one with an unbalanced bracket
Hosts == { <<"g", "w">>, <<"[", ":", ":", "1">> }

\* what urlopen can do: return a response (urllib hands back only 2xx
\* responses), raise HTTPError with the server's code, or raise anything else
Outcomes ==
    [kind : {"response"}, code : {200, 299}]
    \cup [kind : {"HTTPError"}, code : {199, 300, 500}]
    \cup [kind : {"Exception"}, code : {0}]

VARIABLES
    elb_host,     \* args.elb_host
    duration,     \* args.duration
    concurrency,  \* args.concurrency
    now,          \* time.time()
    pc,           \* position of run_load_test
    stats,        \* the Stats object (meaningful once created)
    wpc,          \* position of each worker task
    end_time,     \* each worker's local end_time
    req,          \* executor work items, one per slot
    warm,         \* outcome logged for the warm-up: "", "OK" or "FAILED"
    progress,     \* totals at which a progress line was printed
    printed,      \* counters printed by the final summary
    exit_code,    \* value returned by run_load_test
    warmups,      \* history: warm-up requests sent
    dispatched,   \* history: main-phase requests sent
    observed,     \* history: main-phase results seen, by class
    printed_lat,  \* latency lines of the final summary (empty if skipped)
    harness       \* a direct caller of Stats: last call, last readings

vars == << elb_host, duration, concurrency, now, pc, stats, wpc, end_time,
           req, warm, progress, printed, exit_code, warmups, dispatched,
           observed, printed_lat, harness >>

(* ------------------------------ Stats ---------------------------------- *)
\* Python's min(a, b) and max(a, b) with float("inf") as a possible a
PyMin(a, b) == IF a = Inf THEN b ELSE IF b < a THEN b ELSE a
PyMax(a, b) == IF b > a THEN b ELSE a

StatsInit(t) ==
    [ok |-> 0, err |-> 0, total_latency |-> 0, min_latency |-> Inf,
     max_latency |-> 0, start_time |-> t]

\* a record_success that updates the running minimum with max()
record_success_MinByMax(s, latency) ==
    [s EXCEPT !.ok = @ + 1,
              !.total_latency = @ + latency,
              !.min_latency = PyMax(@, latency),
              !.max_latency = PyMax(@, latency)]

record_success(s, latency) ==
    [s EXCEPT !.ok = @ + 1,
              !.total_latency = @ + latency,
              !.min_latency = PyMin(@, latency),
              !.max_latency = PyMax(@, latency)]

\* a record_error that stores instead of incrementing
record_error_Overwrite(s) == [s EXCEPT !.err = 1]

record_error(s) == [s EXCEPT !.err = @ + 1]

total(s) == s.ok + s.err

elapsed(s, t) == t - s.start_time

\* a float quotient num / den, kept exact; den = 0 is a ZeroDivisionError
Rat(n, d) == [num |-> n, den |-> d]

\* an rps whose guard only excludes a zero elapsed time
rps_NonZeroGuard(s, t) ==
    LET e == elapsed(s, t) IN
    IF e # 0 THEN Rat(total(s), e) ELSE Rat(0, 1)

rps(s, t) ==
    LET e == elapsed(s, t) IN
    IF e > 0 THEN Rat(total(s), e) ELSE Rat(0, 1)

avg_latency(s) ==
    IF s.ok > 0 THEN Rat(s.total_latency * 1000, s.ok) ELSE Rat(0, 1)

Abs(n) == IF n < 0 THEN -n ELSE n

\* n / d rounded to an integer, ties to even (n >= 0, d > 0)
RoundHalfEven(n, d) ==
    LET q == n \div d
        r == n % d
    IN  IF 2 * r > d THEN q + 1
        ELSE IF 2 * r < d THEN q
        ELSE IF q % 2 = 0 THEN q ELSE q + 1

\* the digits printed by f"{x:.1f}" (scale 10), f"{x:.2f}" (scale 100) and
\* f"{x:.0f}" (scale 1), as a count of the last printed decimal place
FmtFixed(x, scale) ==
    LET sgn == IF (x.num < 0) # (x.den < 0) THEN -1 ELSE 1 IN
    sgn * RoundHalfEven(Abs(x.num * scale), Abs(x.den))

summary(s, t) ==
    [ok |-> s.ok, err |-> s.err, rps |-> FmtFixed(rps(s, t), 10),
     avg |-> FmtFixed(avg_latency(s), 1)]

\* latency * 1000 on a float that may be inf
Millis(x) == IF x = Inf THEN Inf ELSE x * 1000

(* --------------------------- send_request ------------------------------ *)
Endpoint(host) ==
    [scheme |-> "http", netloc |-> host, path |-> "/v1/chat/completions"]

HasChar(s, c) == \E i \in DOMAIN s : s[i] = c

\* urllib.request.Request(endpoint, ...) raises ValueError for a URL without
\* a scheme and for a netloc with an unbalanced square bracket
RequestRaises(ep) ==
    \/ ep.scheme = ""
    \/ HasChar(ep.netloc, "[") /\ ~HasChar(ep.netloc, "]")
    \/ HasChar(ep.netloc, "]") /\ ~HasChar(ep.netloc, "[")

IdleReq == [st |-> "idle", t0 |-> 0, timeout |-> 0, exc |-> FALSE,
            status |-> 0, latency |-> 0]

\* loop.run_in_executor(None, do_request): the work item is queued
Submit(timeout) == [IdleReq EXCEPT !.st = "submitted", !.timeout = timeout]

\* the value do_request returns for an outcome of urlopen
DoRequestResult(o, t0, t) ==
    IF o.kind = "response" THEN << o.code, t - t0 >>
    ELSE IF o.kind = "HTTPError" THEN << o.code, t - t0 >>
    ELSE << 0, t - t0 >>

\* a classification that takes every status below 400 for a success
IsSuccess_Below400(status) == 200 <= status /\ status < 400

\* a classification that leaves out status 200 itself
IsSuccess_Above200(status) == 200 < status /\ status < 300

IsSuccess(status) == 200 <= status /\ status < 300

\* an exit status that lets an error rate of exactly 10% pass
ExitStatus_AtMost(s) == IF 10 * s.err <= s.ok + s.err THEN 0 ELSE 1

\* 0 if stats.err < stats.total * 0.1 else 1.  The product is a double; it
\* can differ from the exact comparison 10 * err < total only where
\* 10 * err = total, and there (10 * k) * 0.1 is exactly k for every
\* k below 2000000, so the two agree.
ExitStatus(s) == IF 10 * s.err < total(s) THEN 0 ELSE 1

(* ------------------------------ helpers -------------------------------- *)
\* a task list built with one index too many
Launched_Inclusive == { w \in Workers : w <= concurrency }

Launched == { w \in Workers : w < concurrency }

\* no task is between a resumption and its next await
EventLoopIdle == \A w \in Workers : wpc[w] # "loop"

\* the requests a run may send: a run from the start stops early, a run
\* taken up mid-way stops MaxTail requests past its progress line
ReqCap ==
    IF dispatched + MaxLead < ProgressEvery
      THEN IF concurrency = 1 THEN MaxSerialReq ELSE MaxParReq
      ELSE ((dispatched + MaxLead) \div ProgressEvery) * ProgressEvery
           + MaxTail

StatsExists == pc \in {"gather", "summary", "exit", "done"}

\* the readings of every accessor of Stats at clock reading t
Accessors(s, t) ==
    [total |-> total(s), elapsed |-> elapsed(s, t), rps |-> rps(s, t),
     avg_latency |-> avg_latency(s), min_latency |-> s.min_latency,
     max_latency |-> s.max_latency, summary |-> summary(s, t)]

\* a caller that has made no call yet
HarnessInit ==
    [calls |-> 0, op |-> "none", arg |-> 0, fresh |-> FALSE,
     seen |-> Accessors(StatsInit(0), 0)]

(* ------------------------------- Init ---------------------------------- *)
Init ==
    /\ elb_host \in Hosts
    /\ duration \in 0 .. MaxDuration
    /\ concurrency \in -1 .. MaxConc
    /\ now = 0
    /\ pc = "start"
    /\ stats = StatsInit(0)
    /\ wpc = [w \in Workers |-> "none"]
    /\ end_time = [w \in Workers |-> 0]
    /\ req = [r \in Slots |-> IdleReq]
    /\ warm = ""
    /\ progress = << >>
    /\ printed = [total |-> 0, ok |-> 0, err |-> 0]
    /\ exit_code = NotReturned
    /\ warmups = 0
    /\ dispatched = 0
    /\ observed = [s2xx |-> 0, other |-> 0, lat |-> 0, lats |-> {}]
    /\ printed_lat = << >>
    /\ harness = HarnessInit

(* ------------------------------ the clock ------------------------------ *)
Tick ==
    /\ IF StatsExists
         THEN now < stats.start_time + duration + MaxOver
         ELSE now < MaxStart
    /\ now' = now + 1
    /\ UNCHANGED << elb_host, duration, concurrency, pc, stats, wpc,
                    end_time, req, warm, progress, printed, exit_code,
                    warmups, dispatched, observed,
                    printed_lat, harness >>

(* --------------------------- executor threads -------------------------- *)
\* do_request up to urlopen: build the Request, read t0
DoRequestStart(r) ==
    /\ req[r].st = "submitted"
    /\ req' = [req EXCEPT ![r] =
                 IF RequestRaises(Endpoint(elb_host))
                   THEN [@ EXCEPT !.st = "finished", !.exc = TRUE]
                   ELSE [@ EXCEPT !.st = "running", !.t0 = now]]
    /\ UNCHANGED << elb_host, duration, concurrency, now, pc, stats, wpc,
                    end_time, warm, progress, printed, exit_code, warmups,
                    dispatched, observed,
                    printed_lat, harness >>

\* urlopen returns or raises; do_request returns (status, elapsed)
DoRequestFinish(r) ==
    /\ req[r].st = "running"
    /\ \E o \in Outcomes :
         LET res == DoRequestResult(o, req[r].t0, now) IN
         req' = [req EXCEPT ![r] =
                   [@ EXCEPT !.st = "finished", !.t0 = 0,
                             !.status = res[1], !.latency = res[2]]]
    /\ UNCHANGED << elb_host, duration, concurrency, now, pc, stats, wpc,
                    end_time, warm, progress, printed, exit_code, warmups,
                    dispatched, observed,
                    printed_lat, harness >>

(* ----------------------------- run_load_test --------------------------- *)
\* banner, then the warm-up request is sent and awaited
MainWarmup ==
    /\ pc = "start"
    /\ pc' = "await_warmup"
    /\ req' = [req EXCEPT ![WarmSlot] = Submit(WarmupTimeout)]
    /\ warmups' = warmups + 1
    /\ UNCHANGED << elb_host, duration, concurrency, now, stats, wpc,
                    end_time, warm, progress, printed, exit_code,
                    dispatched, observed,
                    printed_lat, harness >>

\* a launch that counts the warm-up's result in the new Stats
MainLaunch_CountsWarmup ==
    /\ pc = "await_warmup"
    /\ req[WarmSlot].st = "finished"
    /\ req' = [req EXCEPT ![WarmSlot] = IdleReq]
    /\ IF req[WarmSlot].exc
         THEN /\ pc' = "raised"
              /\ UNCHANGED << stats, wpc, warm >>
         ELSE /\ warm' = IF IsSuccess(req[WarmSlot].status)
                           THEN "OK" ELSE "FAILED"
              /\ stats' = IF IsSuccess(req[WarmSlot].status)
                            THEN record_success(StatsInit(now),
                                                req[WarmSlot].latency)
                            ELSE record_error(StatsInit(now))
              /\ wpc' = [w \in Workers |->
                           IF w \in Launched THEN "pending" ELSE "none"]
              /\ pc' = "gather"
    /\ UNCHANGED << elb_host, duration, concurrency, now, end_time,
                    progress, printed, exit_code, warmups, dispatched,
                    observed,
                    printed_lat, harness >>

\* the warm-up returned: log it, create Stats, create the tasks, reach gather
MainLaunch ==
    /\ pc = "await_warmup"
    /\ req[WarmSlot].st = "finished"
    /\ req' = [req EXCEPT ![WarmSlot] = IdleReq]
    /\ IF req[WarmSlot].exc
         THEN /\ pc' = "raised"
              /\ UNCHANGED << stats, wpc, warm >>
         ELSE /\ warm' = IF IsSuccess(req[WarmSlot].status)
                           THEN "OK" ELSE "FAILED"
              /\ stats' = StatsInit(now)
              /\ wpc' = [w \in Workers |->
                           IF w \in Launched THEN "pending" ELSE "none"]
              /\ pc' = "gather"
    /\ UNCHANGED << elb_host, duration, concurrency, now, end_time,
                    progress, printed, exit_code, warmups, dispatched,
                    observed,
                    printed_lat, harness >>

\* a join that returns as soon as the first task is done
GatherReady_FirstCompleted ==
    \/ Launched = {}
    \/ \E w \in Launched : wpc[w] \in {"failed", "done"}

\* await asyncio.gather(*tasks) returns once every task is done, and raises
\* as soon as one task has failed
GatherReady ==
    \/ \E w \in Launched : wpc[w] = "failed"
    \/ \A w \in Launched : wpc[w] = "done"

MainGather ==
    /\ pc = "gather"
    /\ EventLoopIdle
    /\ GatherReady
    /\ pc' = IF \E w \in Launched : wpc[w] = "failed"
               THEN "raised" ELSE "summary"
    /\ UNCHANGED << elb_host, duration, concurrency, now, stats, wpc,
                    end_time, req, warm, progress, printed, exit_code,
                    warmups, dispatched, observed,
                    printed_lat, harness >>

\* a summary that prints the latency lines whatever ok is
MainSummary_Unguarded ==
    /\ pc = "summary"
    /\ printed' = [total |-> total(stats), ok |-> stats.ok,
                   err |-> stats.err]
    /\ printed_lat' =
         << [rps |-> FmtFixed(rps(stats, now), 100),
             avg |-> FmtFixed(avg_latency(stats), 1),
             min |-> Millis(stats.min_latency),
             max |-> Millis(stats.max_latency)] >>
    /\ pc' = "exit"
    /\ UNCHANGED << elb_host, duration, concurrency, now, stats, wpc,
                    end_time, req, warm, progress, exit_code, warmups,
                    dispatched, observed, harness >>

\* the final summary block
MainSummary ==
    /\ pc = "summary"
    /\ printed' = [total |-> total(stats), ok |-> stats.ok,
                   err |-> stats.err]
    /\ printed_lat' =
         IF stats.ok > 0
           THEN << [rps |-> FmtFixed(rps(stats, now), 100),
                    avg |-> FmtFixed(avg_latency(stats), 1),
                    min |-> Millis(stats.min_latency),
                    max |-> Millis(stats.max_latency)] >>
           ELSE << >>
    /\ pc' = "exit"
    /\ UNCHANGED << elb_host, duration, concurrency, now, stats, wpc,
                    end_time, req, warm, progress, exit_code, warmups,
                    dispatched, observed, harness >>

MainReturn ==
    /\ pc = "exit"
    /\ exit_code' = ExitStatus(stats)
    /\ pc' = "done"
    /\ UNCHANGED << elb_host, duration, concurrency, now, stats, wpc,
                    end_time, req, warm, progress, printed, warmups,
                    dispatched, observed,
                    printed_lat, harness >>

(* -------------------------------- worker ------------------------------- *)
\* a worker that counts its deadline from its own first run
WorkerStart_OwnClock(w) ==
    /\ wpc[w] = "pending"
    /\ EventLoopIdle
    /\ end_time' = [end_time EXCEPT ![w] = now + duration]
    /\ wpc' = [wpc EXCEPT ![w] = "loop"]
    /\ UNCHANGED << elb_host, duration, concurrency, now, pc, stats, req,
                    warm, progress, printed, exit_code, warmups,
                    dispatched, observed,
                    printed_lat, harness >>

\* first run of a task: end_time = stats.start_time + duration
WorkerStart(w) ==
    /\ wpc[w] = "pending"
    /\ EventLoopIdle
    /\ end_time' = [end_time EXCEPT ![w] = stats.start_time + duration]
    /\ wpc' = [wpc EXCEPT ![w] = "loop"]
    /\ UNCHANGED << elb_host, duration, concurrency, now, pc, stats, req,
                    warm, progress, printed, exit_code, warmups,
                    dispatched, observed,
                    printed_lat, harness >>

\* a loop that also gives up after the first recorded error
WorkerLoop_ErrorExit(w) ==
    /\ wpc[w] = "loop"
    /\ IF now < end_time[w] /\ stats.err = 0
         THEN /\ dispatched < ReqCap
              /\ req' = [req EXCEPT ![w] = Submit(WorkerTimeout)]
              /\ wpc' = [wpc EXCEPT ![w] = "await"]
              /\ dispatched' = dispatched + 1
         ELSE /\ wpc' = [wpc EXCEPT ![w] = "done"]
              /\ UNCHANGED << req, dispatched >>
    /\ UNCHANGED << elb_host, duration, concurrency, now, pc, stats,
                    end_time, warm, progress, printed, exit_code, warmups,
                    observed,
                    printed_lat, harness >>

\* a loop whose deadline test is time.time() <= end_time
WorkerLoop_Inclusive(w) ==
    /\ wpc[w] = "loop"
    /\ IF now <= end_time[w]
         THEN /\ dispatched < ReqCap
              /\ req' = [req EXCEPT ![w] = Submit(WorkerTimeout)]
              /\ wpc' = [wpc EXCEPT ![w] = "await"]
              /\ dispatched' = dispatched + 1
         ELSE /\ wpc' = [wpc EXCEPT ![w] = "done"]
              /\ UNCHANGED << req, dispatched >>
    /\ UNCHANGED << elb_host, duration, concurrency, now, pc, stats,
                    end_time, warm, progress, printed, exit_code, warmups,
                    observed,
                    printed_lat, harness >>

\* a loop that sends the next request without awaiting the previous one
WorkerLoop_FireAndForget(w) ==
    /\ wpc[w] = "loop"
    /\ IF now < end_time[w]
         THEN /\ dispatched < ReqCap
              /\ req' = [req EXCEPT ![w] = Submit(WorkerTimeout)]
              /\ wpc' = wpc
              /\ dispatched' = dispatched + 1
         ELSE /\ wpc' = [wpc EXCEPT ![w] = "done"]
              /\ UNCHANGED << req, dispatched >>
    /\ UNCHANGED << elb_host, duration, concurrency, now, pc, stats,
                    end_time, warm, progress, printed, exit_code, warmups,
                    observed, printed_lat, harness >>

\* while time.time() < end_time: send the next request, else return
WorkerLoop(w) ==
    /\ wpc[w] = "loop"
    /\ IF now < end_time[w]
         THEN /\ dispatched < ReqCap
              /\ req' = [req EXCEPT ![w] = Submit(WorkerTimeout)]
              /\ wpc' = [wpc EXCEPT ![w] = "await"]
              /\ dispatched' = dispatched + 1
         ELSE /\ wpc' = [wpc EXCEPT ![w] = "done"]
              /\ UNCHANGED << req, dispatched >>
    /\ UNCHANGED << elb_host, duration, concurrency, now, pc, stats,
                    end_time, warm, progress, printed, exit_code, warmups,
                    observed,
                    printed_lat, harness >>

\* a worker that adds the latency of failed requests to the running sum
Recorded_ErrLatency(s, status, latency) ==
    IF IsSuccess(status) THEN record_success(s, latency)
    ELSE [record_error(s) EXCEPT !.total_latency = @ + latency]

\* the stats after a worker has classified and recorded one result
Recorded(s, status, latency) ==
    IF IsSuccess(status) THEN record_success(s, latency)
    ELSE record_error(s)

\* a progress check that counts successful requests only
Progressed_OkOnly(p, s) ==
    IF s.ok % ProgressEvery = 0 /\ s.ok > 0
      THEN Append(p, total(s)) ELSE p

\* the progress lines after the check that follows a record
Progressed(p, s) ==
    IF total(s) % ProgressEvery = 0 /\ total(s) > 0
      THEN Append(p, total(s)) ELSE p

\* send_request returned to the worker: classify, record, progress check
WorkerResume(w) ==
    /\ wpc[w] = "await"
    /\ req[w].st = "finished"
    /\ EventLoopIdle
    /\ req' = [req EXCEPT ![w] = IdleReq]
    /\ IF req[w].exc
         THEN /\ wpc' = [wpc EXCEPT ![w] = "failed"]
              /\ UNCHANGED << stats, progress, observed >>
         ELSE /\ stats' = Recorded(stats, req[w].status, req[w].latency)
              /\ progress' = Progressed(progress, stats')
              /\ observed' =
                   IF req[w].status \in 200 .. 299
                     THEN [observed EXCEPT
                             !.s2xx = @ + 1,
                             !.lat = @ + req[w].latency,
                             !.lats = @ \cup {req[w].latency}]
                     ELSE [observed EXCEPT !.other = @ + 1]
              /\ wpc' = [wpc EXCEPT ![w] = "loop"]
    /\ UNCHANGED << elb_host, duration, concurrency, now, pc, end_time,
                    warm, printed, exit_code, warmups, dispatched,
                    printed_lat, harness >>

(* ------------------------------- Next ---------------------------------- *)
Next ==
    \/ Tick
    \/ \E r \in Slots : DoRequestStart(r)
    \/ \E r \in Slots : DoRequestFinish(r)
    \/ MainWarmup
    \/ MainLaunch
    \/ MainGather
    \/ MainSummary
    \/ MainReturn
    \/ \E w \in Workers : WorkerStart(w)
    \/ \E w \in Workers : WorkerLoop(w)
    \/ \E w \in Workers : WorkerResume(w)

Spec == Init /\ [][Next]_vars

FairSpec ==
    /\ Spec
    /\ WF_vars(Tick)
    /\ \A r \in Slots : WF_vars(DoRequestStart(r)) /\ WF_vars(DoRequestFinish(r))
    /\ WF_vars(MainWarmup) /\ WF_vars(MainLaunch) /\ WF_vars(MainGather)
    /\ WF_vars(MainSummary) /\ WF_vars(MainReturn)
    /\ \A w \in Workers :
         WF_vars(WorkerStart(w)) /\ WF_vars(WorkerLoop(w))
         /\ WF_vars(WorkerResume(w))

(* ------------------- the main phase, taken up mid-way ------------------ *)
\* A state of the main phase shortly before the k-th progress line: all
\* workers have just sent a request, 50k - MaxLead results are recorded (all
\* with latency 0, at most one of them an error), and the lines for the
\* earlier multiples of 50 are out.
InitProgress ==
    /\ elb_host = <<"g", "w">>
    /\ duration \in 1 .. MaxDuration
    /\ concurrency \in 1 .. MaxConc
    /\ now = 0
    /\ pc = "gather"
    /\ wpc = [w \in Workers |-> IF w \in Launched THEN "await" ELSE "none"]
    /\ end_time = [w \in Workers |-> IF w \in Launched THEN duration ELSE 0]
    /\ req = [r \in Slots |->
                IF r \in Launched THEN Submit(WorkerTimeout) ELSE IdleReq]
    /\ warm = "OK"
    /\ printed = [total |-> 0, ok |-> 0, err |-> 0]
    /\ exit_code = NotReturned
    /\ warmups = 1
    /\ printed_lat = << >>
    /\ harness = HarnessInit
    /\ \E k \in 1 .. MaxRounds, e \in 0 .. 1 :
         LET base == k * ProgressEvery - MaxLead IN
         /\ stats = [ok |-> base - e, err |-> e, total_latency |-> 0,
                     min_latency |-> 0, max_latency |-> 0,
                     start_time |-> 0]
         /\ observed = [s2xx |-> base - e, other |-> e, lat |-> 0,
                        lats |-> {0}]
         /\ dispatched = base + Cardinality(Launched)
         /\ progress = [i \in 1 .. (k - 1) |-> i * ProgressEvery]

NextProgress ==
    \/ Tick
    \/ \E r \in Slots : DoRequestStart(r)
    \/ \E r \in Slots : DoRequestFinish(r)
    \/ MainGather
    \/ MainSummary
    \/ MainReturn
    \/ \E w \in Workers : WorkerLoop(w)
    \/ \E w \in Workers : WorkerResume(w)

SpecProgress == InitProgress /\ [][NextProgress]_vars

(* ---------------------- Stats under a direct caller -------------------- *)
\* A Stats object used on its own: any sequence of record_success and
\* record_error calls and accessor reads, with time.time() free to step
\* forwards and backwards between them (it is the wall clock).
InitStats ==
    /\ elb_host = <<"g", "w">>
    /\ duration = 0
    /\ concurrency = 0
    /\ now \in 0 .. MaxStart
    /\ pc = "harness"
    /\ stats = StatsInit(now)
    /\ wpc = [w \in Workers |-> "none"]
    /\ end_time = [w \in Workers |-> 0]
    /\ req = [r \in Slots |-> IdleReq]
    /\ warm = ""
    /\ progress = << >>
    /\ printed = [total |-> 0, ok |-> 0, err |-> 0]
    /\ exit_code = NotReturned
    /\ warmups = 0
    /\ dispatched = 0
    /\ observed = [s2xx |-> 0, other |-> 0, lat |-> 0, lats |-> {}]
    /\ printed_lat = << >>
    /\ harness = HarnessInit

CallRecordSuccess(l) ==
    /\ harness.calls < MaxCalls
    /\ stats' = record_success(stats, l)
    /\ harness' = [HarnessInit EXCEPT !.calls = harness.calls + 1,
                                      !.op = "record_success", !.arg = l]
    /\ UNCHANGED << elb_host, duration, concurrency, now, pc, wpc, end_time,
                    req, warm, progress, printed, exit_code, warmups,
                    dispatched, observed, printed_lat >>

CallRecordError ==
    /\ harness.calls < MaxCalls
    /\ stats' = record_error(stats)
    /\ harness' = [HarnessInit EXCEPT !.calls = harness.calls + 1,
                                      !.op = "record_error"]
    /\ UNCHANGED << elb_host, duration, concurrency, now, pc, wpc, end_time,
                    req, warm, progress, printed, exit_code, warmups,
                    dispatched, observed, printed_lat >>

\* accessors that hand out the counters and start them afresh
ReadAccessors_Draining ==
    /\ harness' = [harness EXCEPT !.op = "read", !.arg = 0, !.fresh = TRUE,
                                  !.seen = Accessors(stats, now)]
    /\ stats' = StatsInit(stats.start_time)
    /\ UNCHANGED << elb_host, duration, concurrency, now, pc, wpc, end_time,
                    req, warm, progress, printed, exit_code, warmups,
                    dispatched, observed, printed_lat >>

\* read every accessor once and keep the readings
ReadAccessors ==
    /\ harness' = [harness EXCEPT !.op = "read", !.arg = 0, !.fresh = TRUE,
                                  !.seen = Accessors(stats, now)]
    /\ UNCHANGED << elb_host, duration, concurrency, now, pc, stats, wpc,
                    end_time, req, warm, progress, printed, exit_code,
                    warmups, dispatched, observed, printed_lat >>

\* time.time() takes another value
SetClock(t) ==
    /\ t # now
    /\ now' = t
    /\ UNCHANGED << elb_host, duration, concurrency, pc, stats, wpc,
                    end_time, req, warm, progress, printed, exit_code,
                    warmups, dispatched, observed, printed_lat, harness >>

NextStats ==
    \/ \E l \in 0 .. MaxLat : CallRecordSuccess(l)
    \/ CallRecordError
    \/ ReadAccessors
    \/ \E t \in 0 .. MaxClock : SetClock(t)

SpecStats == InitStats /\ [][NextStats]_vars

(* ------------------------------ properties ----------------------------- *)
PostJoin == pc \in {"summary", "exit", "done"}

\* C1: once Stats exists, ok + err equals the number of results the workers
\* have recorded, and every change of Stats adds exactly 1 to exactly one of
\* ok and err, under every interleaving of the workers.
C1_NoLostUpdate ==
    /\ [](StatsExists => stats.ok + stats.err = observed.s2xx + observed.other)
    /\ [][(StatsExists /\ stats' # stats) =>
            \/ stats'.ok = stats.ok + 1 /\ stats'.err = stats.err
            \/ stats'.ok = stats.ok /\ stats'.err = stats.err + 1]_vars

\* two workers hold a finished request at once and a result is already in
C1_Witness ==
    /\ concurrency = 2
    /\ \A w \in Launched : wpc[w] = "await" /\ req[w].st = "finished"
    /\ stats.ok + stats.err >= 1

C3_NeverRaises ==
    /\ \A r \in Slots : ~req[r].exc
    /\ pc # "raised"
    /\ \A w \in Workers : wpc[w] # "failed"

\* C4: a result is recorded as a success iff its status is in [200,300) and
\* as an error otherwise; a run without any 2xx response ends with ok = 0,
\* err = total and exit code 1.
C4_Classification ==
    /\ StatsExists =>
         stats.ok = observed.s2xx /\ stats.err = observed.other
    /\ (pc = "done" /\ observed.s2xx = 0) =>
         /\ stats.ok = 0
         /\ stats.err = stats.ok + stats.err
         /\ exit_code = 1

\* a finished run with responses, none of them 2xx
C4_Witness ==
    pc = "done" /\ observed.s2xx = 0 /\ observed.other >= 2

\* C5: the summary and the exit status are produced only after every worker
\* returned with no request in flight, Stats does not change after the join,
\* and the summary's counters are those the exit status is computed from.
C5_JoinBarrier ==
    /\ [](PostJoin =>
            /\ \A w \in Launched : wpc[w] = "done"
            /\ \A w \in Workers : req[w].st = "idle")
    /\ [](pc = "done" =>
            /\ printed = [total |-> stats.ok + stats.err, ok |-> stats.ok,
                          err |-> stats.err]
            /\ exit_code = 0 <=> 10 * printed.err < printed.total)
    /\ [][PostJoin => stats' = stats]_vars

\* a two-worker run that recorded results and returned
C5_Witness ==
    pc = "done" /\ concurrency = 2 /\ stats.ok + stats.err >= 2

InFlight(w) == req[w].st \in {"submitted", "running", "finished"}

\* C6: a worker returns only from its deadline test, with the clock at or
\* past the deadline, and never dispatches afterwards; a request is sent only
\* with the clock before the deadline; a request in flight is never dropped:
\* it leaves the executor only by being recorded, so at the join every
\* request sent has been recorded.
C6_TimeBasedExit ==
    /\ [][\A w \in Workers :
            /\ (wpc[w] # "done" /\ wpc'[w] = "done") =>
                 wpc[w] = "loop" /\ now >= end_time[w]
            /\ wpc[w] = "done" => wpc'[w] = "done" /\ req'[w].st = "idle"
            /\ (~InFlight(w) /\ InFlight(w)') => now < end_time[w]
            /\ (InFlight(w) /\ ~InFlight(w)') =>
                 /\ stats'.ok + stats'.err = stats.ok + stats.err + 1
                 /\ wpc'[w] = "loop"]_vars
    /\ [](PostJoin => stats.ok + stats.err = dispatched)

\* a success whose latency exceeds the whole duration was recorded: that
\* request completed after the deadline
C6_Witness ==
    pc = "done" /\ duration > 0 /\ stats.max_latency > duration

Max0(n) == IF n > 0 THEN n ELSE 0

\* C7: once the tasks are created there are exactly `concurrency` of them
\* (none when concurrency is not positive), every worker that has started
\* uses end_time = stats.start_time + duration, and neither start_time nor
\* a worker's end_time changes afterwards.
C7_SharedDeadline ==
    /\ [](StatsExists =>
            /\ Cardinality({w \in Workers : wpc[w] # "none"})
                 = Max0(concurrency)
            /\ \A w \in Workers :
                 wpc[w] \in {"loop", "await", "done"} =>
                   end_time[w] = stats.start_time + duration)
    /\ [][StatsExists =>
            /\ stats'.start_time = stats.start_time
            /\ \A w \in Workers :
                 wpc[w] \in {"loop", "await", "done"} =>
                   end_time'[w] = end_time[w]]_vars

\* two workers are running and the clock has moved since Stats was created
C7_Witness ==
    /\ concurrency = 2
    /\ \A w \in Launched : wpc[w] = "await"
    /\ now > stats.start_time

\* C8: exactly one warm-up request is sent; it has completed before any
\* worker dispatches; Stats is empty while no worker has started and only
\* ever counts main-phase results; a failed warm-up does not abort the run
\* (the workers are launched) and the exit status follows from the
\* main-phase results alone.
C8_WarmupExcluded ==
    /\ warmups <= 1
    /\ pc # "start" => warmups = 1
    /\ dispatched > 0 => req[WarmSlot].st = "idle" /\ warm # ""
    /\ (StatsExists /\ \A w \in Launched : wpc[w] = "pending") =>
         stats.ok = 0 /\ stats.err = 0
    /\ StatsExists =>
         stats.ok = observed.s2xx /\ stats.err = observed.other
    /\ warm = "FAILED" =>
         /\ pc \in {"gather", "summary", "exit", "done"}
         /\ Cardinality({w \in Workers : wpc[w] # "none"})
              = Max0(concurrency)
    /\ pc = "done" =>
         (exit_code = 0 <=>
            10 * observed.other < observed.s2xx + observed.other)

\* the warm-up failed and the run still ended with exit status 0
C8_Witness ==
    warm = "FAILED" /\ pc = "done" /\ exit_code = 0 /\ stats.ok >= 2

\* C9: with duration = 0 no worker ever sends a request, and the run ends
\* with ok = err = total = 0 and exit status 1.
C9_ZeroDuration ==
    duration = 0 =>
        /\ dispatched = 0
        /\ \A w \in Workers : req[w].st = "idle" /\ wpc[w] # "await"
        /\ pc = "done" =>
             /\ stats.ok = 0 /\ stats.err = 0
             /\ stats.ok + stats.err = 0
             /\ exit_code = 1

\* a zero-duration run with two workers has returned
C9_Witness ==
    duration = 0 /\ concurrency = 2 /\ pc = "done"
    /\ \A w \in Launched : wpc[w] = "done"

\* C10: with a clock that keeps advancing and requests that all complete,
\* run_load_test eventually prints the summary and returns an exit status.
\* (For a host on which Request() raises, the run ends at pc = "raised": the
\* ValueError leaves run_load_test and asyncio.run, and the process stops
\* with a traceback, so "done" is never reached.)
C10_Terminates == <>(pc = "done" /\ exit_code \in {0, 1})

\* C11: a worker has at most one request in flight: it is suspended while
\* its request is in flight and sends the next one only from its loop test,
\* with the previous one recorded; so the requests sent and not yet recorded
\* are exactly the workers' pending calls, at most `concurrency` of them.
C11_SequentialPerWorker ==
    /\ [](StatsExists =>
            /\ \A w \in Workers : InFlight(w) => wpc[w] = "await"
            /\ dispatched - (stats.ok + stats.err)
                 = Cardinality({w \in Workers : InFlight(w)})
            /\ dispatched - (stats.ok + stats.err) <= Max0(concurrency))
    /\ [][\A w \in Workers :
            (dispatched' = dispatched + 1 /\ req'[w] # req[w]) =>
               ~InFlight(w) /\ wpc[w] = "loop" /\ wpc'[w] = "await"]_vars

\* both workers have a request running at once, after earlier results
C11_Witness ==
    /\ concurrency = 2
    /\ \A w \in Launched : req[w].st = "running"
    /\ stats.ok + stats.err >= 1

\* C12 as stated: when every main-phase response is 2xx and duration > 0,
\* the run ends with err = 0 and exit status 0.
C12_AllOkExitsZero ==
    (pc = "done" /\ duration > 0 /\ observed.other = 0) =>
        stats.err = 0 /\ exit_code = 0

\* C12 amended: when every main-phase response is 2xx, duration > 0 and at
\* least one request completed, the run ends with err = 0 and exit status 0;
\* when none completed, it ends with total = 0 and exit status 1.
C12_AllOkWithTraffic ==
    (pc = "done" /\ duration > 0 /\ observed.other = 0) =>
        /\ stats.err = 0
        /\ observed.s2xx > 0 => exit_code = 0
        /\ observed.s2xx = 0 => stats.ok + stats.err = 0 /\ exit_code = 1

\* one worker, every response 2xx, the run returned 0
C12_Witness ==
    /\ pc = "done" /\ duration > 0 /\ concurrency = 1
    /\ observed.other = 0 /\ observed.s2xx >= 2 /\ exit_code = 0

\* C13 as stated: with no record call since the accessors were last read,
\* reading them again yields the same value for every one of them.
C13_ReadsRepeat ==
    harness.fresh => Accessors(stats, now) = harness.seen

\* C13 amended: with no record call since the last read, total, avg_latency,
\* min_latency and max_latency read the same again; elapsed, rps and
\* summary() read the same again when time.time() returns the same value;
\* and reading the accessors changes no field of Stats.
C13_ReadsRepeatAtSameClock ==
    /\ [](harness.fresh =>
            LET a == Accessors(stats, now) IN
            /\ a.total = harness.seen.total
            /\ a.avg_latency = harness.seen.avg_latency
            /\ a.min_latency = harness.seen.min_latency
            /\ a.max_latency = harness.seen.max_latency
            /\ a.elapsed = harness.seen.elapsed =>
                 /\ a.rps = harness.seen.rps
                 /\ a.summary = harness.seen.summary)
    /\ [][harness'.op = "read" => stats' = stats]_vars

\* the accessors were read after some records and the clock has moved since
C13_Witness ==
    /\ harness.fresh
    /\ harness.seen.total >= 2
    /\ harness.seen.avg_latency.num > 0
    /\ elapsed(stats, now) # harness.seen.elapsed

\* C14: record_error adds 1 to err and changes nothing else;
\* record_success(latency) adds 1 to ok, adds latency to total_latency, sets
\* min_latency / max_latency to the min / max of the old value and latency,
\* and leaves err and start_time alone.
C14_RecordFrames ==
    [][harness'.calls = harness.calls + 1 =>
         IF harness'.op = "record_error"
           THEN /\ stats'.err = stats.err + 1
                /\ stats'.ok = stats.ok
                /\ stats'.total_latency = stats.total_latency
                /\ stats'.min_latency = stats.min_latency
                /\ stats'.max_latency = stats.max_latency
                /\ stats'.start_time = stats.start_time
           ELSE LET l == harness'.arg IN
                /\ harness'.op = "record_success"
                /\ stats'.ok = stats.ok + 1
                /\ stats'.total_latency = stats.total_latency + l
                /\ stats'.min_latency =
                     IF stats.min_latency = Inf \/ l < stats.min_latency
                       THEN l ELSE stats.min_latency
                /\ stats'.max_latency =
                     IF l > stats.max_latency THEN l ELSE stats.max_latency
                /\ stats'.err = stats.err
                /\ stats'.start_time = stats.start_time]_vars

\* a success was just recorded after both kinds of call, with distinct
\* running minimum and maximum
C14_Witness ==
    /\ harness.op = "record_success"
    /\ stats.ok >= 2 /\ stats.err >= 1
    /\ stats.min_latency < stats.max_latency

\* C15: rps never divides by zero, is never negative, equals total / elapsed
\* when elapsed > 0 and is 0 when elapsed <= 0.
C15_RpsGuarded ==
    pc = "harness" =>
        LET r == rps(stats, now)
            e == elapsed(stats, now)
        IN  /\ r.den # 0
            /\ r.num * r.den >= 0
            /\ e > 0 => r.num * e = (stats.ok + stats.err) * r.den
            /\ e <= 0 => r.num = 0

\* rps was read with the clock before start_time and requests recorded
C15_Witness ==
    /\ harness.fresh
    /\ harness.seen.elapsed < 0
    /\ harness.seen.total >= 1
    /\ harness.seen.rps.num = 0

\* C16: avg_latency never divides by zero, is 0 while ok = 0 (also when only
\* errors were recorded) and otherwise is 1000 times the sum of the latencies
\* of the results recorded as successes, divided by their number; latencies
\* of results recorded as errors do not enter it.
C16_AvgLatency ==
    StatsExists =>
        LET a == avg_latency(stats) IN
        /\ a.den # 0
        /\ stats.ok = 0 => a.num = 0
        /\ observed.s2xx = 0 => a.num = 0
        /\ observed.s2xx > 0 =>
             a.num * observed.s2xx = observed.lat * 1000 * a.den

\* a finished run with successes of positive latency and errors, whose
\* summary printed the average
C16_Witness ==
    /\ pc = "done"
    /\ stats.ok >= 2 /\ stats.err >= 1
    /\ observed.lat > 0
    /\ printed_lat # << >>

\* C17: the progress lines are exactly one per multiple of 50 that the
\* global total has reached, in order; a line is printed in the very step in
\* which a worker's record brings the total to a multiple of 50, and in no
\* other step.
C17_ProgressEvery50 ==
    /\ [](StatsExists =>
            /\ Len(progress) = (stats.ok + stats.err) \div ProgressEvery
            /\ \A i \in 1 .. Len(progress) :
                 progress[i] = i * ProgressEvery)
    /\ [][progress' # progress =>
            /\ \E w \in Workers : wpc[w] = "await" /\ wpc'[w] = "loop"
            /\ stats'.ok + stats'.err = stats.ok + stats.err + 1
            /\ (stats'.ok + stats'.err) % ProgressEvery = 0
            /\ progress' = Append(progress, stats'.ok + stats'.err)]_vars

\* two workers have just taken the total one past a multiple of 50
C17_Witness ==
    /\ concurrency = 2
    /\ Len(progress) >= 1
    /\ stats.ok + stats.err = ProgressEvery * Len(progress) + 1
    /\ progress[Len(progress)] = ProgressEvery * Len(progress)

\* C18: while ok = 0, total_latency = 0, max_latency = 0 and min_latency is
\* still inf; once ok > 0, min_latency <= max_latency, both are latencies
\* that were recorded, and ok * min_latency <= total_latency
\* <= ok * max_latency.  The summary prints min / max only when ok > 0, so
\* it never prints inf.
C18_LatencyBounds ==
    /\ (StatsExists /\ stats.ok = 0) =>
         /\ stats.total_latency = 0
         /\ stats.max_latency = 0
         /\ stats.min_latency = Inf
    /\ (StatsExists /\ stats.ok > 0) =>
         /\ stats.min_latency # Inf
         /\ stats.min_latency <= stats.max_latency
         /\ stats.min_latency \in observed.lats
         /\ stats.max_latency \in observed.lats
         /\ \A l \in observed.lats :
              stats.min_latency <= l /\ l <= stats.max_latency
         /\ stats.ok * stats.min_latency <= stats.total_latency
         /\ stats.total_latency <= stats.ok * stats.max_latency
    /\ printed_lat # << >> =>
         /\ stats.ok > 0
         /\ printed_lat[1].min # Inf
         /\ printed_lat[1].min = 1000 * stats.min_latency
         /\ printed_lat[1].max = 1000 * stats.max_latency
    /\ (pc \in {"exit", "done"} /\ stats.ok = 0) => printed_lat = << >>

\* a run that recorded errors only has printed its summary
C18_Witness ==
    /\ pc = "done"
    /\ stats.ok = 0 /\ stats.err >= 2
    /\ stats.min_latency = Inf
    /\ printed_lat = << >>

\* C19: with concurrency <= 0 no worker task exists and no main-phase
\* request is ever sent, whatever the duration; gather() is ready at once;
\* the run ends with total = 0 and exit status 1; the warm-up is still sent
\* exactly once.
C19_NoWorkers ==
    concurrency <= 0 =>
        /\ \A w \in Workers : wpc[w] = "none" /\ req[w].st = "idle"
        /\ dispatched = 0
        /\ pc # "start" => warmups = 1
        /\ pc = "gather" => EventLoopIdle /\ GatherReady
        /\ StatsExists => stats.ok + stats.err = 0
        /\ pc = "done" => printed.total = 0 /\ exit_code = 1

\* a run with a negative concurrency and a positive duration has returned
C19_Witness ==
    /\ concurrency < 0 /\ duration > 0
    /\ pc = "done" /\ exit_code = 1 /\ warmups = 1

====
